---- MODULE Spec2Model ----
(***************************************************************************)
(* Model of gcs_browser: the listing cache and tree projection of          *)
(* GCSBrowser.list_items (core.py), the web navigation that clears the     *)
(* cache (web.py), the transfer routines of utils.py and the command-line  *)
(* driver of cli.py.                                                       *)
(*                                                                         *)
(* Python strings are sequences of one-character strings, so that          *)
(* str.replace, str.startswith, str.split, str.lstrip and str.rstrip are   *)
(* computed character by character as Python computes them.                *)
(***************************************************************************)
EXTENDS Integers, Sequences, FiniteSets, TLC

VARIABLES
    store,          \* backend: the set of object paths (files) that exist
    fs,             \* GCSBrowser.fs: "None" or a filesystem handle
    client,         \* GCSBrowser.client
    items_cache,    \* GCSBrowser.items_cache: cache_key -> list of GCSItem
    current_bucket, \* GCSBrowser.current_bucket
    current_prefix, \* GCSBrowser.current_prefix
    current_path,   \* st.session_state.current_path
    connected,      \* st.session_state.connected
    lsCalls,        \* number of fs.ls calls made by list_items (mock call count)
    last,           \* the last operation and what it returned
    env,            \* the host: platform and the state of each external tool
    procLog,        \* transfer subprocesses the last call tried to launch
    tempDir,        \* the scratch directory of sync_with_rsync
    localFiles,     \* local files written by the last download
    out,            \* the last transfer call and its result
    selected_items, \* GCSBrowser.selected_items: the paths ticked in the web app
    download_jobs,  \* GCSBrowser.download_jobs
    show_download_dialog  \* st.session_state.show_download_dialog

browserVars == <<store, fs, client, items_cache, current_bucket,
                 current_prefix, current_path, connected, lsCalls, last>>

hostVars == <<env, procLog, tempDir, localFiles, out>>

sessionVars == <<selected_items, download_jobs, show_download_dialog>>

vars == <<browserVars, hostVars, sessionVars>>

----------------------------------------------------------------------------
(* Bounds *)

MaxObjects == 2     \* objects in the backend store
MaxCalls == 2       \* backend listing calls counted

----------------------------------------------------------------------------
(* Python str operations *)

SLASH == "/"

StartsWith(s, p) ==
    /\ Len(p) <= Len(s)
    /\ SubSeq(s, 1, Len(p)) = p

Drop(s, n) == SubSeq(s, n + 1, Len(s))

Contains(s, c) == \E i \in 1..Len(s) : s[i] = c

RECURSIVE Replace(_, _, _)
Replace(s, old, new) ==
    IF Len(s) < Len(old) THEN s
    ELSE IF StartsWith(s, old) THEN new \o Replace(Drop(s, Len(old)), old, new)
    ELSE <<Head(s)>> \o Replace(Tail(s), old, new)

RECURSIVE LStrip(_, _)
LStrip(s, c) ==
    IF s # <<>> /\ Head(s) = c THEN LStrip(Tail(s), c) ELSE s

RECURSIVE RStrip(_, _)
RStrip(s, c) ==
    IF s # <<>> /\ s[Len(s)] = c THEN RStrip(SubSeq(s, 1, Len(s) - 1), c) ELSE s

RECURSIVE Split(_, _)
Split(s, c) ==
    IF ~Contains(s, c) THEN <<s>>
    ELSE LET i == CHOOSE j \in 1..Len(s) :
                      s[j] = c /\ \A k \in 1..(j - 1) : s[k] # c
         IN  <<SubSeq(s, 1, i - 1)>> \o Split(Drop(s, i), c)

RECURSIVE Join(_, _)
Join(parts, c) ==
    IF parts = <<>> THEN <<>>
    ELSE IF Len(parts) = 1 THEN parts[1]
    ELSE parts[1] \o <<c>> \o Join(Tail(parts), c)

LowerChar(c) ==
    CASE c = "A" -> "a"
      [] c = "B" -> "b"
      [] OTHER   -> c

Lower(s) == [i \in 1..Len(s) |-> LowerChar(s[i])]

Ord(c) ==
    CASE c = "/" -> 47
      [] c = ":" -> 58
      [] c = "A" -> 65
      [] c = "B" -> 66
      [] c = "a" -> 97
      [] c = "b" -> 98
      [] c = "g" -> 103
      [] c = "s" -> 115
      [] OTHER   -> 0

RECURSIVE StrLess(_, _)
StrLess(s, t) ==
    IF t = <<>> THEN FALSE
    ELSE IF s = <<>> THEN TRUE
    ELSE IF Ord(Head(s)) # Ord(Head(t)) THEN Ord(Head(s)) < Ord(Head(t))
    ELSE StrLess(Tail(s), Tail(t))

----------------------------------------------------------------------------
(* The backend: a flat object store and the listing fs.ls returns *)

Buckets == {<<"b">>}
Names == {<<"a">>, <<"b">>, <<"B">>}

Universe ==
    {b \o <<SLASH>> \o n : b \in Buckets, n \in Names}
    \cup {b \o <<SLASH>> \o n \o <<SLASH, "a">> : b \in Buckets, n \in Names}

Stores == {S \in SUBSET Universe : Cardinality(S) <= MaxObjects}

ObjectSize(p) == 5 * Len(p)

Descendants(S, path) == {o \in S : StartsWith(o, path \o <<SLASH>>)}

RelTo(o, path) == Drop(o, Len(path) + 1)

DirectFiles(S, path) ==
    {o \in Descendants(S, path) : ~Contains(RelTo(o, path), SLASH)}

SubFolders(S, path) ==
    {Split(RelTo(o, path), SLASH)[1] :
        o \in {d \in Descendants(S, path) : Contains(RelTo(d, path), SLASH)}}

FileRecord(o) == [name |-> o, type |-> "file", size |-> ObjectSize(o)]

DirRecord(p) == [name |-> p, type |-> "directory", size |-> 0]

LsRecords(S, path, mode) ==
    IF mode = "flat"
    THEN {FileRecord(o) : o \in Descendants(S, path)}
    ELSE {FileRecord(o) : o \in DirectFiles(S, path)}
         \cup {DirRecord(path \o <<SLASH>> \o f) : f \in SubFolders(S, path)}

Orderings(R) ==
    {q \in [1..Cardinality(R) -> R] :
        \A i, j \in 1..Cardinality(R) : i # j => q[i] # q[j]}

LsModes == {"flat", "delimited"}

LsResponses(S, path) ==
    UNION {Orderings(LsRecords(S, path, mode)) : mode \in LsModes}

----------------------------------------------------------------------------
(* The host: platform and external tools *)

Tools == {"gsutil", "gcloud", "rsync"}

\* "ok": installed and working; "missing": no executable on the PATH;
\* "broken": the executable starts but exits with an error status
ToolStates == {"ok", "missing", "broken"}

Platforms == {"Linux", "Windows"}

Envs == [platform : Platforms, tools : [Tools -> ToolStates]]

DefaultEnv == [platform |-> "Linux", tools |-> [t \in Tools |-> "ok"]]

NoFiles == [d \in {} |-> "complete"]

NoOut == [op |-> "none"]

\* subprocess.Popen / subprocess.run of cmd: FileNotFoundError when the
\* executable is missing, a child process otherwise
Launch(e, cmd) ==
    [cmd |-> cmd,
     result |-> IF e.tools[cmd[1]] = "missing" THEN "notfound" ELSE "spawned"]

----------------------------------------------------------------------------
(* GCSBrowser.list_items: projection of a raw listing onto one level *)

GCSItem(name, path, type, size) ==
    [name |-> name, path |-> path, type |-> type, size |-> size]

CacheKey(bucket, prefix) == bucket \o <<SLASH>> \o prefix

LsPath(bucket, prefix) == RStrip(bucket \o <<SLASH>> \o prefix, SLASH)

\* relative_path after lines 186-191; <<>> also stands for "continue"
RelativePath(item_path, bucket, prefix) ==
    LET rel == Replace(item_path, bucket \o <<SLASH>>, <<>>)
    IN  IF prefix # <<>>
        THEN IF ~StartsWith(rel, prefix) THEN <<>>
             ELSE LStrip(Drop(rel, Len(prefix)), SLASH)
        ELSE rel

FolderName(relative_path) ==
    LET parts == Split(RStrip(relative_path, SLASH), SLASH)
    IN  parts[Len(parts)]

SyntheticFolderPath(bucket, prefix, folder_name) ==
    Replace(bucket \o <<SLASH>> \o prefix \o <<SLASH>> \o folder_name,
            <<SLASH, SLASH>>, <<SLASH>>)

\* one iteration of the loop of lines 184-232; acc = [items, folders_seen]
ProcessItem(acc, item, bucket, prefix) ==
    LET relative_path == RelativePath(item.name, bucket, prefix)
    IN  IF relative_path = <<>> THEN acc
        ELSE IF item.type = "directory"
        THEN LET name == FolderName(relative_path)
             IN  IF name \notin acc.folders_seen
                 THEN [items |-> Append(acc.items,
                                   GCSItem(name, item.name, "folder", 0)),
                       folders_seen |-> acc.folders_seen \cup {name}]
                 ELSE acc
        ELSE IF Contains(relative_path, SLASH)
        THEN LET folder_name == Split(relative_path, SLASH)[1]
             IN  IF folder_name \notin acc.folders_seen
                 THEN [items |-> Append(acc.items,
                                   GCSItem(folder_name,
                                           SyntheticFolderPath(bucket, prefix, folder_name),
                                           "folder", 0)),
                       folders_seen |-> acc.folders_seen \cup {folder_name}]
                 ELSE acc
        ELSE [items |-> Append(acc.items,
                          GCSItem(relative_path, item.name, "file", item.size)),
              folders_seen |-> acc.folders_seen]

RECURSIVE ProcessItems(_, _, _, _)
ProcessItems(acc, gcs_items, bucket, prefix) ==
    IF gcs_items = <<>> THEN acc
    ELSE ProcessItems(ProcessItem(acc, Head(gcs_items), bucket, prefix),
                      Tail(gcs_items), bucket, prefix)

\* mutation: the sort key without .lower()
SortKeyCaseSensitive(x) == <<IF x.type # "folder" THEN 1 ELSE 0, x.name>>

\* key=lambda x: (x.type != "folder", x.name.lower())
SortKey(x) == <<IF x.type # "folder" THEN 1 ELSE 0, Lower(x.name)>>

KeyLess(k1, k2) ==
    \/ k1[1] < k2[1]
    \/ k1[1] = k2[1] /\ StrLess(k1[2], k2[2])

\* list.sort is stable: an element goes after the elements that are not greater
RECURSIVE InsertSorted(_, _)
InsertSorted(sorted, x) ==
    IF sorted = <<>> THEN <<x>>
    ELSE IF KeyLess(SortKey(x), SortKey(Head(sorted))) THEN <<x>> \o sorted
    ELSE <<Head(sorted)>> \o InsertSorted(Tail(sorted), x)

RECURSIVE SortItems(_)
SortItems(items) ==
    IF items = <<>> THEN <<>>
    ELSE InsertSorted(SortItems(SubSeq(items, 1, Len(items) - 1)),
                      items[Len(items)])

BuildItems(bucket, prefix, gcs_items) ==
    SortItems(ProcessItems([items |-> <<>>, folders_seen |-> {}],
                           gcs_items, bucket, prefix).items)

\* mutation: "if self.items_cache.get(cache_key):" misses a cached empty list
CacheHitNonEmpty(cache, cache_key) ==
    cache_key \in DOMAIN cache /\ cache[cache_key] # <<>>

CacheHit(cache, cache_key) == cache_key \in DOMAIN cache

CacheStore(cache, cache_key, items) ==
    [k \in DOMAIN cache \cup {cache_key} |->
        IF k = cache_key THEN items ELSE cache[k]]

\* mutation: the except branch stores the empty result it returns
CacheErrorAsEmpty(cache, cache_key) ==
    [k \in DOMAIN cache \cup {cache_key} |->
        IF k = cache_key THEN <<>> ELSE cache[k]]

\* the except branch of lines 240-245 leaves the cache alone
CacheAfterError(cache, cache_key) == cache

EmptyCache == [k \in {} |-> <<>>]

Call(op, bucket, prefix, outcome, ret) ==
    [op |-> op, bucket |-> bucket, prefix |-> prefix,
     outcome |-> outcome, ret |-> ret]

Prefixes == {<<>>, <<"a">>, <<"b">>, <<"a", SLASH>>}

\* list_items(bucket, prefix) with the outcome of fs.ls chosen by the backend
ListItems(bucket, prefix) ==
    LET cache_key == CacheKey(bucket, prefix)
        path == LsPath(bucket, prefix)
    IN  /\ UNCHANGED <<store, fs, client, current_bucket, current_prefix,
                       current_path, connected, hostVars, sessionVars>>
        /\ IF fs = "None"
           THEN /\ last' = Call("list_items", bucket, prefix, "nofs", <<>>)
                /\ UNCHANGED <<items_cache, lsCalls>>
           ELSE IF CacheHit(items_cache, cache_key)
           THEN /\ last' = Call("list_items", bucket, prefix, "cached",
                                items_cache[cache_key])
                /\ UNCHANGED <<items_cache, lsCalls>>
           ELSE /\ lsCalls < MaxCalls
                /\ lsCalls' = lsCalls + 1
                /\ \/ /\ items_cache' = CacheAfterError(items_cache, cache_key)
                      /\ last' = Call("list_items", bucket, prefix, "error", <<>>)
                   \/ \E gcs_items \in LsResponses(store, path) :
                         LET items == BuildItems(bucket, prefix, gcs_items)
                         IN  /\ items_cache' = CacheStore(items_cache, cache_key, items)
                             /\ last' = Call("list_items", bucket, prefix, "ok", items)

\* GCSBrowser.connect
Connect(use_anonymous, outcome) ==
    /\ fs' = IF outcome = "fs_fails" THEN fs
             ELSE IF use_anonymous THEN "anon" ELSE "default"
    /\ client' = IF outcome = "ok" THEN "client" ELSE client
    /\ last' = Call("connect", <<>>, <<>>, outcome, <<>>)
    /\ UNCHANGED <<store, items_cache, current_bucket, current_prefix,
                   current_path, connected, lsCalls, hostVars, sessionVars>>

\* the Connect button of the web sidebar
WebConnect(use_anonymous, outcome) ==
    /\ fs' = IF outcome = "fs_fails" THEN fs
             ELSE IF use_anonymous THEN "anon" ELSE "default"
    /\ client' = IF outcome = "ok" THEN "client" ELSE client
    /\ last' = Call("web_connect", <<>>, <<>>, outcome, <<>>)
    /\ connected' = (connected \/ outcome = "ok")
    /\ UNCHANGED <<store, items_cache, current_bucket, current_prefix,
                   current_path, lsCalls, hostVars, sessionVars>>

ConnectOutcomes == {"ok", "fs_fails", "client_fails"}

----------------------------------------------------------------------------
(* Web navigation (web.py) *)

NavCall(op) == Call(op, <<>>, <<>>, "done", <<>>)

\* mutation: the join keeps the bucket segment
PrefixWithBucket(path) == Join(path, SLASH)

\* browser.current_prefix = "/".join(st.session_state.current_path[1:])
PrefixOf(path) == Join(Tail(path), SLASH)

\* mutation: the navigation handlers without items_cache.clear()
KeepCache(cache) == cache

\* browser.items_cache.clear()
ClearCache(cache) == EmptyCache

SelectBucket(bucket) ==
    /\ connected
    /\ current_bucket = <<>>
    /\ current_bucket' = bucket
    /\ current_path' = <<bucket>>
    /\ last' = NavCall("select_bucket")
    /\ UNCHANGED <<store, fs, client, items_cache, current_prefix,
                   connected, lsCalls, hostVars, sessionVars>>

\* the main column lists the current location on every script run
Render ==
    /\ connected
    /\ current_bucket # <<>>
    /\ ListItems(current_bucket, current_prefix)

FolderButtons ==
    LET cache_key == CacheKey(current_bucket, current_prefix)
    IN  IF CacheHit(items_cache, cache_key)
        THEN {items_cache[cache_key][i].name :
                i \in {j \in 1..Len(items_cache[cache_key]) :
                          items_cache[cache_key][j].type = "folder"}}
        ELSE {}

OpenFolder(folder_name) ==
    /\ connected
    /\ current_bucket # <<>>
    /\ folder_name \in FolderButtons
    /\ current_path' = Append(current_path, folder_name)
    /\ current_prefix' = IF current_prefix # <<>>
                         THEN current_prefix \o <<SLASH>> \o folder_name
                         ELSE folder_name
    /\ items_cache' = ClearCache(items_cache)
    /\ last' = Call("open_folder", <<>>, current_prefix, "done", current_path)
    /\ UNCHANGED <<store, fs, client, current_bucket, connected, lsCalls,
                   hostVars, sessionVars>>

Up ==
    /\ connected
    /\ current_bucket # <<>>
    /\ Len(current_path) > 1
    /\ current_path' = SubSeq(current_path, 1, Len(current_path) - 1)
    /\ current_prefix' = PrefixOf(current_path')
    /\ items_cache' = ClearCache(items_cache)
    /\ last' = NavCall("up")
    /\ UNCHANGED <<store, fs, client, current_bucket, connected, lsCalls,
                   hostVars, sessionVars>>

Breadcrumb(i) ==
    /\ connected
    /\ current_bucket # <<>>
    /\ i \in 1..Len(current_path)
    /\ current_path' = SubSeq(current_path, 1, i)
    /\ current_prefix' = PrefixOf(current_path')
    /\ items_cache' = ClearCache(items_cache)
    /\ last' = NavCall("breadcrumb")
    /\ UNCHANGED <<store, fs, client, current_bucket, connected, lsCalls,
                   hostVars, sessionVars>>

----------------------------------------------------------------------------
(* utils.py: download_with_gsutil and sync_with_rsync *)

\* keyword parameters of download_with_gsutil (its def line)
DownloadWithGsutilParams ==
    {"source", "destination", "recursive", "parallel", "progress_callback"}

\* keywords sync_with_rsync passes in its call of download_with_gsutil
SyncGsutilKeywords == {"recursive", "verbose"}

\* Python raises TypeError on a keyword the callee does not declare
Binds(params, keywords) == keywords \subseteq params

GsutilCmd(source, destination, recursive, parallel) ==
    <<"gsutil">> \o (IF parallel THEN <<"-m">> ELSE <<>>) \o <<"cp">>
    \o (IF recursive THEN <<"-r">> ELSE <<>>) \o <<source, destination>>

\* mutation: a second launch after a failed one
DownloadWithGsutilRetry(e, source, destination, recursive, parallel, rc) ==
    LET p == Launch(e, GsutilCmd(source, destination, recursive, parallel))
    IN  [ret |-> IF p.result = "spawned" /\ rc = 0 THEN "True" ELSE "False",
         procs |-> IF p.result = "spawned" /\ rc = 0 THEN <<p>> ELSE <<p, p>>]

\* one Popen; False on a launch failure (caught) or a non-zero exit status
DownloadWithGsutil(e, source, destination, recursive, parallel, rc) ==
    LET p == Launch(e, GsutilCmd(source, destination, recursive, parallel))
    IN  [ret |-> IF p.result = "spawned" /\ rc = 0 THEN "True" ELSE "False",
         procs |-> <<p>>]

ExitCodes == {0, 1}

DownloadWithGsutilCall(source, destination, recursive, parallel, rc) ==
    LET r == DownloadWithGsutil(env, source, destination, recursive, parallel, rc)
    IN  /\ procLog' = r.procs
        /\ out' = [op |-> "download_with_gsutil", ret |-> r.ret, rc |-> rc,
                   source |-> source, recursive |-> recursive,
                   parallel |-> parallel]
        /\ UNCHANGED <<browserVars, sessionVars, env, tempDir, localFiles>>

RsyncCmd(a, entries) ==
    <<"rsync", "-av">>
    \o (IF a.dry_run THEN <<"--dry-run">> ELSE <<>>)
    \o (IF a.delete THEN <<"--delete">> ELSE <<>>)
    \o (IF a.verbose THEN <<"--progress">> ELSE <<>>)
    \o <<IF entries = 1 THEN "temp_dir/entry/" ELSE "temp_dir/", "destination">>

\* the body of the with block; result "Raise" is an exception leaving it
SyncBody(e, a, nd) ==
    IF ~Binds(DownloadWithGsutilParams, SyncGsutilKeywords)
    THEN [result |-> "Raise", procs |-> <<>>, scratch |-> "failed"]
    ELSE LET g == DownloadWithGsutil(e, "source", "temp_dir", TRUE, TRUE,
                                     nd.gsutil_rc)
         IN  IF g.ret # "True"
             THEN [result |-> "False", procs |-> g.procs, scratch |-> "failed"]
             ELSE LET r == Launch(e, RsyncCmd(a, nd.entries))
                  IN  [result |-> IF r.result = "notfound" THEN "Raise"
                                  ELSE IF nd.rsync_rc = 0 THEN "True"
                                  ELSE "False",
                       procs |-> g.procs \o <<r>>,
                       scratch |-> "ok"]

\* mutation: a scratch directory made without a context manager stays
TemporaryDirectoryKept(d) == d

\* TemporaryDirectory.__exit__ removes the directory however the block ends
TemporaryDirectoryExit(d) == "removed"

\* mutation: no except clause, the exception reaches the caller
SyncExceptMissing(result) == result

\* except Exception: print and return False
SyncExcept(result) == IF result = "Raise" THEN "False" ELSE result

SyncWithRsyncRun(e, a, nd) ==
    IF e.platform = "Windows"
    THEN [ret |-> "False", procs |-> <<>>, tempDir |-> "absent",
          tempCreated |-> FALSE, scratch |-> "not_run"]
    ELSE IF nd.mktemp = "fail"
    THEN [ret |-> SyncExcept("Raise"), procs |-> <<>>, tempDir |-> "absent",
          tempCreated |-> FALSE, scratch |-> "not_run"]
    ELSE LET b == SyncBody(e, a, nd)
         IN  [ret |-> SyncExcept(b.result), procs |-> b.procs,
              tempDir |-> TemporaryDirectoryExit("exists"),
              tempCreated |-> TRUE, scratch |-> b.scratch]

SyncArgs == [dry_run : BOOLEAN, delete : BOOLEAN, verbose : BOOLEAN]

SyncOutcomes ==
    [mktemp : {"ok", "fail"}, gsutil_rc : {0, 1}, rsync_rc : {0, 1},
     entries : {1, 2}]

SyncWithRsync(a, nd) ==
    LET r == SyncWithRsyncRun(env, a, nd)
    IN  /\ procLog' = r.procs
        /\ tempDir' = r.tempDir
        /\ out' = [op |-> "sync_with_rsync", ret |-> r.ret, args |-> a,
                   tempCreated |-> r.tempCreated, scratch |-> r.scratch,
                   nd |-> nd]
        /\ UNCHANGED <<browserVars, sessionVars, env, localFiles>>

----------------------------------------------------------------------------
(* utils.py: download_with_gcsfs *)

GS == <<"g", "s", ":", SLASH, SLASH>>

\* gcsfs addresses objects without the gs:// scheme
StripProtocol(path) == IF StartsWith(path, GS) THEN Drop(path, Len(GS)) ELSE path

\* fs.info(path)['type']; "notfound" stands for the exception it raises
FsInfo(S, path) ==
    LET q == StripProtocol(path)
    IN  IF q \in S THEN "file"
        ELSE IF Descendants(S, q) # {} \/ q \in Buckets THEN "directory"
        ELSE "notfound"

ParentDirs(o) ==
    {SubSeq(o, 1, i - 1) : i \in {j \in 1..Len(o) : o[j] = SLASH}}

\* fs.glob(source_path + "/**"): every file and directory below the source
Glob(S, source_path) ==
    LET q == StripProtocol(source_path)
    IN  Descendants(S, q)
        \cup {d \in UNION {ParentDirs(o) : o \in Descendants(S, q)} :
                StartsWith(d, q \o <<SLASH>>)}

RECURSIVE SortPaths(_)
SortPaths(P) ==
    IF P = {} THEN <<>>
    ELSE LET m == CHOOSE x \in P : \A y \in P : x = y \/ StrLess(x, y)
         IN  <<m>> \o SortPaths(P \ {m})

DestBase == <<"d">>

\* Path(destination) / rel_path
DestJoin(dest, rel_path) ==
    IF rel_path = <<>> THEN dest ELSE dest \o <<SLASH>> \o rel_path

\* rel_path = file_path.replace(source_path, '').lstrip('/')
RelPath(file_path, source_path) ==
    LStrip(Replace(file_path, source_path, <<>>), SLASH)

\* mkdir of the parent or open(dest_file, 'wb') raises: the destination is a
\* directory, or one of its parents is a regular file
WriteBlocked(files, dest_file, destIsDir) ==
    \/ dest_file = DestBase /\ destIsDir
    \/ \E k \in DOMAIN files : StartsWith(k, dest_file \o <<SLASH>>)
    \/ \E q \in ParentDirs(dest_file) : q \in DOMAIN files

PutFile(files, dest_file, status) ==
    [k \in DOMAIN files \cup {dest_file} |->
        IF k = dest_file THEN status ELSE files[k]]

FailModes == {"none", "info", "open", "read"}

\* one iteration of the directory loop, with its own try / except
CopyOne(acc, file_path, S, source_path, destIsDir, fail) ==
    IF fail = "info" THEN [acc EXCEPT !.failed = @ \cup {file_path}]
    ELSE IF FsInfo(S, file_path) # "file" THEN acc
    ELSE LET rel_path == RelPath(file_path, source_path)
             dest_file == DestJoin(DestBase, rel_path)
         IN  IF fail = "open" \/ WriteBlocked(acc.files, dest_file, destIsDir)
             THEN [acc EXCEPT !.failed = @ \cup {file_path}]
             ELSE IF fail = "read"
             THEN [acc EXCEPT !.failed = @ \cup {file_path},
                              !.files = PutFile(@, dest_file, "partial"),
                              !.placed = @ \cup {<<file_path, dest_file>>}]
             ELSE [acc EXCEPT !.copied = @ \cup {file_path},
                              !.files = PutFile(@, dest_file, "complete"),
                              !.progress = Append(@, rel_path),
                              !.placed = @ \cup {<<file_path, dest_file>>}]

RECURSIVE CopyAll(_, _, _, _, _, _)
CopyAll(acc, paths, S, source_path, destIsDir, fails) ==
    IF paths = <<>> THEN acc
    ELSE CopyAll(CopyOne(acc, Head(paths), S, source_path, destIsDir,
                         IF Head(paths) \in DOMAIN fails
                         THEN fails[Head(paths)] ELSE "none"),
                 Tail(paths), S, source_path, destIsDir, fails)

NoCopy ==
    [files |-> NoFiles, failed |-> {}, copied |-> {}, progress |-> <<>>,
     written |-> <<>>, ticks |-> <<>>, reads |-> 0, placed |-> {}]

\* the bytes of an object: info['size'] of them
Content(o) == [i \in 1..ObjectSize(o) |-> o[((i - 1) % Len(o)) + 1]]

\* chunk_size = 8192 * 1024, scaled down to the sizes of the modelled objects
ChunkSize == 8

\* src.read(chunk_size) at offset pos: at most chunk_size bytes, b'' at the end
ReadChunk(content, pos) ==
    SubSeq(content, pos + 1,
           IF pos + ChunkSize < Len(content) THEN pos + ChunkSize ELSE Len(content))

\* mutation: the count advances by chunk_size whatever was read
DownloadedByChunkSize(downloaded, chunk) == downloaded + ChunkSize

\* downloaded += len(chunk)
Downloaded(downloaded, chunk) == downloaded + Len(chunk)

\* the while True loop of the single-file branch; st.raised stands for an
\* exception of src.read, failAt is the read that raises (0: none does)
RECURSIVE ReadLoop(_, _, _, _)
ReadLoop(st, content, total_size, failAt) ==
    IF st.reads + 1 = failAt THEN [st EXCEPT !.raised = TRUE]
    ELSE LET chunk == ReadChunk(content, Len(st.written))
         IN  IF chunk = <<>> THEN [st EXCEPT !.reads = @ + 1]
             ELSE LET d == Downloaded(st.downloaded, chunk)
                  IN  ReadLoop([st EXCEPT !.reads = @ + 1,
                                          !.written = @ \o chunk,
                                          !.downloaded = d,
                                          !.ticks = Append(@, <<d, total_size>>)],
                               content, total_size, failAt)

ReadStart == [reads |-> 0, written |-> <<>>, downloaded |-> 0, ticks |-> <<>>,
              raised |-> FALSE]

\* the reads of a single-file copy that may raise
FailingReads == {1, 2}

\* the value the directory branch returns once the loop is over
DirectoryResult(acc) == "True"

\* nd: destIsDir, globFails, fails (per object), and for a single file
\* the failure of its own copy
DownloadWithGcsfsFrom(files0, f, S, source_path, nd) ==
    LET start == [NoCopy EXCEPT !.files = files0] IN
    IF f = "None"
    THEN [ret |-> "False", kind |-> "nofs", copy |-> start]
    ELSE IF FsInfo(S, source_path) = "file" /\ nd.fails[StripProtocol(source_path)] # "info"
    THEN LET filename == Split(source_path, SLASH)[Len(Split(source_path, SLASH))]
             dest_path == IF nd.destIsDir THEN DestJoin(DestBase, filename)
                          ELSE DestBase
             fail == nd.fails[StripProtocol(source_path)]
             q == StripProtocol(source_path)
             st == ReadLoop(ReadStart, Content(q), ObjectSize(q),
                            IF fail = "read" THEN nd.failAt ELSE 0)
             done == [start EXCEPT !.written = st.written, !.ticks = st.ticks,
                                    !.reads = st.reads]
         IN  IF fail = "open"
             THEN [ret |-> "False", kind |-> "file",
                   copy |-> [start EXCEPT !.failed = {source_path}]]
             ELSE IF st.raised
             THEN [ret |-> "False", kind |-> "file",
                   copy |-> [done EXCEPT !.failed = {source_path},
                                         !.files = PutFile(@, dest_path, "partial")]]
             ELSE [ret |-> "True", kind |-> "file",
                   copy |-> [done EXCEPT !.copied = {source_path},
                                         !.files = PutFile(@, dest_path, "complete")]]
    ELSE IF nd.globFails
    THEN [ret |-> "False", kind |-> "directory", copy |-> start]
    ELSE LET acc == CopyAll(start, SortPaths(Glob(S, source_path)), S,
                            source_path, nd.destIsDir, nd.fails)
         IN  [ret |-> DirectoryResult(acc), kind |-> "directory", copy |-> acc]

\* a call that finds the destination as the model's Init leaves it
DownloadWithGcsfsRun(f, S, source_path, nd) ==
    DownloadWithGcsfsFrom(NoFiles, f, S, source_path, nd)

\* sources as the tests pass them, and with the scheme the callers pass
PlainSources == {<<"b">>, <<"b", SLASH, "a">>, <<"b", SLASH, "B">>}

DownloadSources == PlainSources \cup {GS \o q : q \in PlainSources}

DownloadOutcomes(S) ==
    [destIsDir : BOOLEAN, globFails : BOOLEAN, fails : [S -> FailModes],
     failAt : FailingReads]

DownloadWithGcsfs(source_path, nd) ==
    LET r == DownloadWithGcsfsRun(fs, store, source_path, nd)
    IN  /\ localFiles' = r.copy.files
        /\ out' = [op |-> "download_with_gcsfs", ret |-> r.ret,
                   kind |-> r.kind, source |-> source_path,
                   globbed |-> nd.globFails,
                   injected |-> {o \in store : nd.fails[o] # "none"},
                   failed |-> r.copy.failed, copied |-> r.copy.copied,
                   progress |-> r.copy.progress,
                   written |-> r.copy.written, ticks |-> r.copy.ticks,
                   reads |-> r.copy.reads, placed |-> r.copy.placed]
        /\ UNCHANGED <<browserVars, sessionVars, env, procLog, tempDir>>

----------------------------------------------------------------------------
(* utils.py: detect_download_tools *)

\* subprocess.run(probe, capture_output=True, check=check)
ProbeOutcome(state, check) ==
    IF state = "missing" THEN "FileNotFoundError"
    ELSE IF state = "broken" /\ check THEN "CalledProcessError"
    ELSE "returned"

\* mutation: the handlers without FileNotFoundError
ProbeHandledNoMissing == {"CalledProcessError"}

\* except (subprocess.CalledProcessError, FileNotFoundError)
ProbeHandled == {"CalledProcessError", "FileNotFoundError"}

\* except FileNotFoundError, around the robocopy probe
RobocopyHandled == {"FileNotFoundError"}

\* one try / except block: True, False, or the exception leaves the function
Probe(state, check, handled) ==
    LET x == ProbeOutcome(state, check)
    IN  IF x = "returned" THEN "True"
        ELSE IF x \in handled THEN "False"
        ELSE "raised"

\* the probes in the order the function makes them; robocopy is the state
\* of that tool, looked at on Windows only
DetectProbes(e, robocopy) ==
    [t \in Tools \cup (IF e.platform = "Windows" THEN {"robocopy"} ELSE {}) |->
        IF t = "robocopy" THEN Probe(robocopy, FALSE, RobocopyHandled)
        ELSE IF t = "rsync" /\ e.platform = "Windows" THEN "False"
        ELSE Probe(e.tools[t], TRUE, ProbeHandled)]

DetectRun(e, robocopy) ==
    LET probes == DetectProbes(e, robocopy)
    IN  [raised |-> \E t \in DOMAIN probes : probes[t] = "raised",
         tools |-> [t \in DOMAIN probes |-> probes[t] = "True"]]

DetectDownloadToolsCall(robocopy) ==
    LET r == DetectRun(env, robocopy)
    IN  /\ out' = [op |-> "detect_download_tools", raised |-> r.raised,
                   tools |-> r.tools, robocopy |-> robocopy]
        /\ UNCHANGED <<browserVars, sessionVars, env, procLog, tempDir,
                       localFiles>>

----------------------------------------------------------------------------
(* cli.py: main *)

\* detect_download_tools: a tool is reported True when its probe ran and
\* exited with status 0; rsync is False on Windows without a probe
DetectDownloadTools(e) == [t \in Tools |-> DetectRun(e, "ok").tools[t]]

\* path.split('/', 1)
SplitFirst(s) ==
    IF ~Contains(s, SLASH) THEN <<s>>
    ELSE LET parts == Split(s, SLASH)
         IN  <<parts[1], Drop(s, Len(parts[1]) + 1)>>

\* GCSBrowser.connect as run by GCSCLIBrowser.__init__
ConnectedFs(use_anonymous, outcome) ==
    IF outcome = "fs_fails" THEN "None"
    ELSE IF use_anonymous THEN "anon" ELSE "default"

Exit(code, procs) ==
    [exit |-> code, procs |-> procs, files |-> NoFiles, tempDir |-> "absent",
     cache |-> EmptyCache, calls |-> 0, items |-> <<>>, stage |-> "early"]

\* the browse command; nd.ls says whether fs.ls raised and what it returned
MainBrowse(f, S, args, nd) ==
    IF args.source = <<>> THEN Exit("1", <<>>)
    ELSE IF ~StartsWith(args.source, GS) THEN Exit("1", <<>>)
    ELSE LET parts == SplitFirst(Drop(args.source, Len(GS)))
             bucket == parts[1]
             prefix == IF Len(parts) > 1 THEN parts[2] ELSE <<>>
             called == f # "None"
             items == IF ~called \/ nd.ls.raised THEN <<>>
                      ELSE BuildItems(bucket, prefix, nd.ls.gcs_items)
             cache == IF called /\ ~nd.ls.raised
                      THEN CacheStore(EmptyCache, CacheKey(bucket, prefix), items)
                      ELSE EmptyCache
             code == IF items = <<>> THEN "0"
                     ELSE IF \A i \in 1..Len(items) : items[i].type # "file"
                     THEN "exception"
                     ELSE "0"
         IN  [Exit(code, <<>>) EXCEPT !.cache = cache,
                                     !.calls = IF called THEN 1 ELSE 0,
                                     !.items = items,
                                     !.stage = "browse"]

\* the download command
MainDownload(e, f, S, args, nd) ==
    IF args.source = <<>> \/ ~args.destination THEN Exit("1", <<>>)
    ELSE IF args.dry_run THEN Exit("0", <<>>)
    ELSE IF args.method = "gsutil"
    THEN LET g == DownloadWithGsutil(e, "source", "destination", TRUE, TRUE, nd.rc)
         IN  [Exit(IF g.ret = "True" THEN "0" ELSE "1", g.procs)
                 EXCEPT !.stage = "download_with_gsutil"]
    ELSE LET d == DownloadWithGcsfsRun(f, S, args.source, nd.dl)
         IN  [Exit(IF d.ret = "True" THEN "0" ELSE "1", <<>>)
                 EXCEPT !.files = d.copy.files,
                        !.stage = "download_with_gcsfs"]

GsutilRsyncCmd(args) ==
    <<"gsutil", "-m", "rsync", "-r">>
    \o (IF args.delete THEN <<"-d">> ELSE <<>>)
    \o (IF args.verbose THEN <<"-v">> ELSE <<>>)
    \o <<"source", "destination">>

\* the sync command
MainSync(e, args, nd) ==
    IF args.source = <<>> \/ ~args.destination THEN Exit("1", <<>>)
    ELSE IF args.dry_run THEN Exit("0", <<>>)
    ELSE IF args.method = "rsync"
    THEN LET r == SyncWithRsyncRun(e,
                      [dry_run |-> args.dry_run, delete |-> args.delete,
                       verbose |-> args.verbose], nd.sync)
         IN  [Exit(IF r.ret = "True" THEN "0" ELSE "1", r.procs)
                 EXCEPT !.tempDir = r.tempDir, !.stage = "sync_with_rsync"]
    ELSE LET p == Launch(e, GsutilRsyncCmd(args))
         IN  [Exit(IF p.result = "notfound" THEN "exception"
                   ELSE IF nd.rc = 0 THEN "0" ELSE "1", <<p>>)
                 EXCEPT !.stage = "gsutil_rsync"]

\* main(): exit is the value returned, "2" for the SystemExit of argparse,
\* "exception" when an exception leaves main
MainRun(e, S, args, nd) ==
    LET tools == DetectDownloadTools(e)
        use_anon == args.anonymous \/ ~args.credentials
        f == ConnectedFs(use_anon, nd.connect)
    IN  IF ~args.valid THEN Exit("2", <<>>)
        ELSE IF args.method = "gsutil" /\ ~tools["gsutil"] THEN Exit("1", <<>>)
        ELSE IF args.method = "rsync" /\ ~tools["rsync"] THEN Exit("1", <<>>)
        ELSE IF args.command = "list-buckets"
        THEN [Exit("0", <<>>) EXCEPT !.stage = "list_buckets"]
        ELSE IF args.command = "browse" THEN MainBrowse(f, S, args, nd)
        ELSE IF args.command = "download" THEN MainDownload(e, f, S, args, nd)
        ELSE MainSync(e, args, nd)

Commands == {"list-buckets", "browse", "download", "sync"}

Methods == {"gsutil", "gcsfs", "rsync"}

CliSources ==
    {<<>>, GS \o <<"b">>, GS \o <<"b", SLASH, "a">>, <<"b", SLASH, "a">>}

ValidArgs ==
    [valid : {TRUE}, command : Commands, source : CliSources,
     destination : BOOLEAN, method : Methods, verbose : BOOLEAN,
     dry_run : BOOLEAN, delete : BOOLEAN, credentials : BOOLEAN,
     anonymous : BOOLEAN]

\* a command line argparse rejects (unknown command, method or flag)
RejectedArgs ==
    [valid |-> FALSE, command |-> "browse", source |-> <<>>,
     destination |-> FALSE, method |-> "gsutil", verbose |-> FALSE,
     dry_run |-> FALSE, delete |-> FALSE, credentials |-> FALSE,
     anonymous |-> FALSE]

CliArgs == ValidArgs \cup {RejectedArgs}

\* the objects of the buckets the command line is pointed at
CliUniverse == {<<"b", SLASH, "a">>, <<"b", SLASH, "a", SLASH, "a">>}

CliStores == {{}} \cup {{o} : o \in CliUniverse}

\* gcloud is probed but never used by the command line
CliEnvs == {e \in Envs : e.tools["gcloud"] = "ok" /\ e.tools["rsync"] # "broken"}

\* per-object outcomes of a download started from the command line
CliDownloadOutcomes(S) ==
    [destIsDir : BOOLEAN, globFails : BOOLEAN, fails : [S -> {"none", "read"}],
     failAt : {1}]

NoLs == [raised |-> TRUE, gcs_items |-> <<>>]

NoDl(S) ==
    [destIsDir |-> FALSE, globFails |-> FALSE, fails |-> [o \in S |-> "none"],
     failAt |-> 1]

NoSync == [mktemp |-> "ok", gsutil_rc |-> 0, rsync_rc |-> 0, entries |-> 1]

\* the outcomes the environment decides in a run of the given command; an
\* outcome the run never consults is held at one value
CliOutcomes(S, args) ==
    IF args.command = "browse"
    THEN {[connect |-> c, rc |-> 0, ls |-> l, dl |-> NoDl(S), sync |-> NoSync] :
            c \in ConnectOutcomes,
            l \in {NoLs} \cup
                  (IF StartsWith(args.source, GS)
                   THEN {[raised |-> FALSE, gcs_items |-> q] :
                           q \in LsResponses(S, RStrip(Drop(args.source, Len(GS)), SLASH))}
                   ELSE {})}
    ELSE IF args.command = "download" /\ args.method = "gsutil"
    THEN {[connect |-> "ok", rc |-> r, ls |-> NoLs, dl |-> NoDl(S), sync |-> NoSync] :
            r \in {0, 1}}
    ELSE IF args.command = "download"
    THEN {[connect |-> c, rc |-> 0, ls |-> NoLs, dl |-> d, sync |-> NoSync] :
            c \in ConnectOutcomes, d \in CliDownloadOutcomes(S)}
    ELSE IF args.command = "sync" /\ args.method = "rsync"
    THEN {[connect |-> "ok", rc |-> 0, ls |-> NoLs, dl |-> NoDl(S), sync |-> y] :
            y \in SyncOutcomes}
    ELSE IF args.command = "sync"
    THEN {[connect |-> "ok", rc |-> r, ls |-> NoLs, dl |-> NoDl(S), sync |-> NoSync] :
            r \in {0, 1}}
    ELSE {[connect |-> c, rc |-> 0, ls |-> NoLs, dl |-> NoDl(S), sync |-> NoSync] :
            c \in ConnectOutcomes}

\* one run of the command-line program; its browser object is local to the
\* run, so what the run did is recorded in out
Main(args) ==
    /\ out.op = "none"
    /\ \E nd \in CliOutcomes(store, args) :
        LET r == MainRun(env, store, args, nd)
        IN  /\ out' = [op |-> "main", args |-> args, exit |-> r.exit,
                       stage |-> r.stage, items |-> r.items,
                       calls |-> r.calls,
                       reported |-> DetectDownloadTools(env)]
            /\ procLog' = r.procs
            /\ tempDir' = r.tempDir
            /\ localFiles' = r.files
            /\ UNCHANGED <<browserVars, sessionVars, env>>

----------------------------------------------------------------------------

----------------------------------------------------------------------------
(* core.py: get_folder_size *)

\* path = f"{bucket}/{prefix}".rstrip("/")
SizePath(bucket, prefix) == RStrip(bucket \o <<SLASH>> \o prefix, SLASH)

\* mutation: a one-level glob, f"{path}/*"
FolderGlobOneLevel(S, path) ==
    {q \in Glob(S, path) : ~Contains(Drop(q, Len(path) + 1), SLASH)}

\* files = self.fs.glob(f"{path}/**")
FolderGlob(S, path) == Glob(S, path)

\* the for loop: a file adds its size, a directory adds nothing, and an
\* object whose fs.info raises is skipped by the inner except
RECURSIVE SumSizes(_, _, _, _)
SumSizes(total_size, files, S, infoFails) ==
    IF files = <<>> THEN total_size
    ELSE LET file_path == Head(files)
             next == IF file_path \in infoFails THEN total_size
                     ELSE IF FsInfo(S, file_path) = "file"
                     THEN total_size + ObjectSize(file_path)
                     ELSE total_size
         IN  SumSizes(next, Tail(files), S, infoFails)

\* mutation: the outer except re-raises
SizeExceptPropagates(cause) == [ret |-> 0, raised |-> TRUE, warned |-> cause]

\* except Exception: warn and return 0
SizeExcept(cause) == [ret |-> 0, raised |-> FALSE, warned |-> cause]

\* nd.globFails: fs.glob raises; nd.infoFails: the objects whose fs.info raises
GetFolderSizeRun(f, S, bucket, prefix, nd) ==
    IF f = "None" THEN SizeExcept("AttributeError")
    ELSE IF nd.globFails THEN SizeExcept("glob")
    ELSE [ret |-> SumSizes(0, SortPaths(FolderGlob(S, SizePath(bucket, prefix))),
                           S, nd.infoFails),
          raised |-> FALSE, warned |-> "none"]

SizeOutcomes(S) ==
    [globFails : BOOLEAN, infoFails : {{}} \cup {{o} : o \in S}]

GetFolderSize(bucket, prefix, nd) ==
    LET r == GetFolderSizeRun(fs, store, bucket, prefix, nd)
    IN  /\ out' = [op |-> "get_folder_size", bucket |-> bucket,
                   prefix |-> prefix, ret |-> r.ret, raised |-> r.raised,
                   warned |-> r.warned, infoFails |-> nd.infoFails]
        /\ last' = Call("get_folder_size", bucket, prefix, "done", <<>>)
        /\ UNCHANGED <<store, fs, client, items_cache, current_bucket,
                       current_prefix, current_path, connected, lsCalls,
                       env, procLog, tempDir, localFiles, sessionVars>>

----------------------------------------------------------------------------
(* core.py: GCSItem.size_human *)

\* A size is held as its base-1024 digits, lowest first, so that sizes up to
\* the TB range fit the checker's integers; size /= 1024.0 is exact on a
\* float below 2^53 and moves the lowest digit behind the point.
Kibi == 1024

\* sizes = ["B", "KB", "MB", "GB", "TB"]
SizeUnits == <<<<"B">>, <<"K", "B">>, <<"M", "B">>, <<"G", "B">>, <<"T", "B">>>>

DecimalDigits == <<"0", "1", "2", "3", "4", "5", "6", "7", "8", "9">>

RECURSIVE IntToStr(_)
IntToStr(n) ==
    IF n < 10 THEN <<DecimalDigits[n + 1]>>
    ELSE IntToStr(n \div 10) \o <<DecimalDigits[(n % 10) + 1]>>

RECURSIVE DigitsValue(_)
DigitsValue(d) ==
    IF d = <<>> THEN 0 ELSE Head(d) + Kibi * DigitsValue(Tail(d))

\* the while loop: whole holds the digits before the point, frac those
\* behind it (lowest first), i the index into sizes
RECURSIVE ScaleLoop(_, _, _)
ScaleLoop(whole, frac, i) ==
    IF Len(whole) > 1 /\ i < Len(SizeUnits) - 1
    THEN ScaleLoop(Tail(whole), Append(frac, Head(whole)), i + 1)
    ELSE [whole |-> whole, frac |-> frac, i |-> i]

\* ten times a fraction: the digits that stay behind the point and the carry
RECURSIVE TimesTen(_, _)
TimesTen(frac, carry) ==
    IF frac = <<>> THEN [frac |-> <<>>, carry |-> carry]
    ELSE LET t == Head(frac) * 10 + carry
             rest == TimesTen(Tail(frac), t \div Kibi)
         IN  [frac |-> <<t % Kibi>> \o rest.frac, carry |-> rest.carry]

\* the fraction against one half: -1 below, 0 equal, 1 above
HalfCompare(frac) ==
    IF frac = <<>> THEN -1
    ELSE LET top == frac[Len(frac)]
             low == \E k \in 1..Len(frac) - 1 : frac[k] # 0
         IN  IF top > Kibi \div 2 \/ (top = Kibi \div 2 /\ low) THEN 1
             ELSE IF top = Kibi \div 2 THEN 0
             ELSE -1

\* mutation: the tenths cut off instead of rounded
TenthsTruncated(whole, frac) ==
    DigitsValue(whole) * 10 + TimesTen(frac, 0).carry

\* f"{size:.1f}": the value in tenths, rounded to nearest, ties to even
Tenths(whole, frac) ==
    LET t == TimesTen(frac, 0)
        floor == DigitsValue(whole) * 10 + t.carry
        c == HalfCompare(t.frac)
    IN  IF c = 1 \/ (c = 0 /\ floor % 2 = 1) THEN floor + 1 ELSE floor

size_human(size) ==
    IF \A k \in 1..Len(size) : size[k] = 0 THEN <<"0", " ", "B">>
    ELSE LET r == ScaleLoop(size, <<>>, 0)
             v == Tenths(r.whole, r.frac)
         IN  IntToStr(v \div 10) \o <<".", DecimalDigits[(v % 10) + 1], " ">>
             \o SizeUnits[r.i + 1]

\* sizes below 2^53, which float(self.size) holds exactly
SizeDigits == {0, 1, 51, 256, 512, 1023}

SizeInputs ==
    {d \in UNION {[1..n -> SizeDigits] : n \in 1..6} :
        /\ Len(d) = 1 \/ d[Len(d)] # 0
        /\ Len(d) = 6 => d[6] = 1}

\* one evaluation of the property per explored item
SizeHumanCall(size) ==
    /\ out.op = "none"
    /\ out' = [op |-> "size_human", size |-> size, text |-> size_human(size)]
    /\ UNCHANGED <<browserVars, sessionVars, env, procLog, tempDir, localFiles>>

----------------------------------------------------------------------------
(* web.py: selection and the download dialog *)

\* items = browser.list_items(current_bucket, current_prefix) as rendered
Displayed ==
    LET cache_key == CacheKey(current_bucket, current_prefix)
    IN  IF current_bucket # <<>> /\ CacheHit(items_cache, cache_key)
        THEN items_cache[cache_key] ELSE <<>>

DisplayedPaths == {Displayed[i].path : i \in 1..Len(Displayed)}

WebCall(op, path) == Call(op, <<>>, path, "done", <<>>)

\* the checkbox of a row is ticked: browser.selected_items.add(item.path)
Select(path) ==
    /\ connected
    /\ path \in DisplayedPaths \ selected_items
    /\ selected_items' = selected_items \cup {path}
    /\ last' = WebCall("select", path)
    /\ UNCHANGED <<store, fs, client, items_cache, current_bucket,
                   current_prefix, current_path, connected, lsCalls,
                   hostVars, download_jobs, show_download_dialog>>

\* the checkbox is cleared: browser.selected_items.discard(item.path)
Deselect(path) ==
    /\ connected
    /\ path \in DisplayedPaths \cap selected_items
    /\ selected_items' = selected_items \ {path}
    /\ last' = WebCall("deselect", path)
    /\ UNCHANGED <<store, fs, client, items_cache, current_bucket,
                   current_prefix, current_path, connected, lsCalls,
                   hostVars, download_jobs, show_download_dialog>>

\* browser.selected_items = {item.path for item in items}
SelectAllResult(selected, paths) == paths

SelectAll ==
    /\ connected
    /\ Displayed # <<>>
    /\ selected_items' = SelectAllResult(selected_items, DisplayedPaths)
    /\ last' = WebCall("select_all", <<>>)
    /\ UNCHANGED <<store, fs, client, items_cache, current_bucket,
                   current_prefix, current_path, connected, lsCalls,
                   hostVars, download_jobs, show_download_dialog>>

ClearSelection ==
    /\ connected
    /\ Displayed # <<>>
    /\ selected_items' = {}
    /\ last' = WebCall("clear_selection", <<>>)
    /\ UNCHANGED <<store, fs, client, items_cache, current_bucket,
                   current_prefix, current_path, connected, lsCalls,
                   hostVars, download_jobs, show_download_dialog>>

\* "Download Selected" is disabled while nothing is selected
ShowDownloadDialog ==
    /\ connected
    /\ Displayed # <<>>
    /\ selected_items # {}
    /\ ~show_download_dialog
    /\ show_download_dialog' = TRUE
    /\ last' = WebCall("download_selected", <<>>)
    /\ UNCHANGED <<store, fs, client, items_cache, current_bucket,
                   current_prefix, current_path, connected, lsCalls,
                   hostVars, selected_items, download_jobs>>

CancelDownload ==
    /\ connected
    /\ show_download_dialog
    /\ show_download_dialog' = FALSE
    /\ last' = WebCall("cancel", <<>>)
    /\ UNCHANGED <<store, fs, client, items_cache, current_bucket,
                   current_prefix, current_path, connected, lsCalls,
                   hostVars, selected_items, download_jobs>>

\* [m for m in ["gsutil", "gcsfs", "gcloud"] if tools.get(m, m == "gcsfs")]
AvailableMethods(e) ==
    {"gcsfs"} \cup {t \in {"gsutil", "gcloud"} : DetectDownloadTools(e)[t]}

\* the loop over selected_paths of "Start Download"
RECURSIVE WebDownloadAll(_, _, _, _, _, _, _)
WebDownloadAll(acc, paths, method, e, f, S, nd) ==
    IF paths = <<>> THEN acc
    ELSE LET source == GS \o Head(paths)
             next ==
               IF method = "gsutil"
               THEN LET g == DownloadWithGsutil(e, source, DestBase, TRUE, TRUE,
                                                nd.rc)
                    IN  [acc EXCEPT !.procs = @ \o g.procs,
                                    !.results = Append(@, g.ret)]
               ELSE LET d == DownloadWithGcsfsFrom(acc.files, f, S, source, nd.dl)
                    IN  [acc EXCEPT !.files = d.copy.files,
                                    !.results = Append(@, d.ret)]
         IN  WebDownloadAll(next, Tail(paths), method, e, f, S, nd)

WebDownloadOutcomes(S) ==
    [rc : {0, 1},
     dl : [destIsDir : {TRUE}, globFails : {FALSE},
           fails : [S -> {"none", "read"}], failAt : {1}]]

\* the model follows a session up to its first download
StartDownload(method, selected_paths, nd) ==
    LET r == WebDownloadAll([files |-> localFiles, procs |-> <<>>,
                             results |-> <<>>],
                            selected_paths, method, env, fs, store, nd)
    IN  /\ connected
        /\ show_download_dialog
        /\ out.op = "none"
        /\ method \in AvailableMethods(env)
        /\ selected_paths \in Orderings(selected_items)
        /\ localFiles' = r.files
        /\ procLog' = r.procs
        /\ out' = [op |-> "start_download", method |-> method,
                   requested |-> selected_paths, results |-> r.results]
        /\ show_download_dialog' = FALSE
        /\ selected_items' = {}
        /\ last' = WebCall("start_download", <<>>)
        /\ UNCHANGED <<store, fs, client, items_cache, current_bucket,
                       current_prefix, current_path, connected, lsCalls,
                       env, tempDir, download_jobs>>

Init ==
    /\ store \in Stores
    /\ fs = "None"
    /\ client = "None"
    /\ items_cache = EmptyCache
    /\ current_bucket = <<>>
    /\ current_prefix = <<>>
    /\ current_path = <<>>
    /\ connected = FALSE
    /\ lsCalls = 0
    /\ last = NavCall("init")
    /\ env = DefaultEnv
    /\ procLog = <<>>
    /\ tempDir = "absent"
    /\ localFiles = NoFiles
    /\ out = NoOut
    /\ selected_items = {}
    /\ download_jobs = <<>>
    /\ show_download_dialog = FALSE

Next ==
    \/ \E a \in BOOLEAN, o \in ConnectOutcomes : Connect(a, o)
    \/ \E a \in BOOLEAN, o \in ConnectOutcomes : WebConnect(a, o)
    \/ \E b \in Buckets, p \in Prefixes : ListItems(b, p)
    \/ \E b \in Buckets : SelectBucket(b)
    \/ Render
    \/ \E n \in Names : OpenFolder(n)
    \/ Up
    \/ \E i \in 1..2 : Breadcrumb(i)

Spec == Init /\ [][Next]_vars

\* sync_with_rsync called on any host
InitSync ==
    /\ store = {}
    /\ fs = "None"
    /\ client = "None"
    /\ items_cache = EmptyCache
    /\ current_bucket = <<>>
    /\ current_prefix = <<>>
    /\ current_path = <<>>
    /\ connected = FALSE
    /\ lsCalls = 0
    /\ last = NavCall("init")
    /\ env \in Envs
    /\ procLog = <<>>
    /\ tempDir = "absent"
    /\ localFiles = NoFiles
    /\ out = NoOut
    /\ selected_items = {}
    /\ download_jobs = <<>>
    /\ show_download_dialog = FALSE

\* download_with_gcsfs called on a browser with or without a connection
InitDownload ==
    /\ store \in Stores
    /\ fs \in {"None", "anon"}
    /\ client = "None"
    /\ items_cache = EmptyCache
    /\ current_bucket = <<>>
    /\ current_prefix = <<>>
    /\ current_path = <<>>
    /\ connected = FALSE
    /\ lsCalls = 0
    /\ last = NavCall("init")
    /\ env = DefaultEnv
    /\ procLog = <<>>
    /\ tempDir = "absent"
    /\ localFiles = NoFiles
    /\ out = NoOut
    /\ selected_items = {}
    /\ download_jobs = <<>>
    /\ show_download_dialog = FALSE

\* one call per explored browser
NextDownload ==
    /\ out.op = "none"
    /\ \E s \in DownloadSources, nd \in DownloadOutcomes(store) :
          DownloadWithGcsfs(s, nd)

SpecDownload == InitDownload /\ [][NextDownload]_vars

\* one run of the command-line program on any host
InitCli ==
    /\ store \in CliStores
    /\ fs = "None"
    /\ client = "None"
    /\ items_cache = EmptyCache
    /\ current_bucket = <<>>
    /\ current_prefix = <<>>
    /\ current_path = <<>>
    /\ connected = FALSE
    /\ lsCalls = 0
    /\ last = NavCall("init")
    /\ env \in CliEnvs
    /\ procLog = <<>>
    /\ tempDir = "absent"
    /\ localFiles = NoFiles
    /\ out = NoOut
    /\ selected_items = {}
    /\ download_jobs = <<>>
    /\ show_download_dialog = FALSE

NextCli == out.op = "none" /\ \E args \in CliArgs : Main(args)

SpecCli == InitCli /\ [][NextCli]_vars

NextSync == \E a \in SyncArgs, nd \in SyncOutcomes : SyncWithRsync(a, nd)

SpecSync == InitSync /\ [][NextSync]_vars

----------------------------------------------------------------------------
(* Properties of list_items and its cache *)

IsListCall(c) == c.op = "list_items"

Listed(c) == IsListCall(c) /\ c.outcome \in {"ok", "cached"}

FoldersThenFiles(items, m, n) ==
    /\ Len(items) = m + n
    /\ \A i \in 1..Len(items) :
          items[i].type = IF i <= m THEN "folder" ELSE "file"

\* C1: a listing of a location with N direct-child files and M distinct
\* immediate subfolders returns exactly M folder entries followed by exactly
\* N file entries.
C1_FolderAndFileCounts ==
    Listed(last) =>
        LET path == LsPath(last.bucket, last.prefix)
        IN  FoldersThenFiles(last.ret,
                             Cardinality(SubFolders(store, path)),
                             Cardinality(DirectFiles(store, path)))

NotGreater(x, y) ==
    \/ Lower(x.name) = Lower(y.name)
    \/ StrLess(Lower(x.name), Lower(y.name))

Ordered(items) ==
    \A i, j \in 1..Len(items) :
        i < j =>
            /\ ~(items[i].type = "file" /\ items[j].type = "folder")
            /\ items[i].type = items[j].type => NotGreater(items[i], items[j])

\* C2: every sequence list_items returns, fresh or cached, has all folders
\* before all files and each kind in ascending order of the lower-cased name.
C2_FoldersFirstSortedByLowerName ==
    /\ IsListCall(last) => Ordered(last.ret)
    /\ \A k \in DOMAIN items_cache : Ordered(items_cache[k])

C2_Witness ==
    /\ Listed(last)
    /\ Len(last.ret) = 2
    /\ last.ret[1].type = "file"
    /\ last.ret[1].name = <<"a">>
    /\ last.ret[2].name = <<"B">>

\* C3: once a key is cached, a further list_items call for it returns the
\* cached sequence, makes no backend call and leaves the cache as it is,
\* also when the cached sequence is empty.
C3_CachedListIsIdempotent ==
    [][(IsListCall(last')
        /\ CacheKey(last'.bucket, last'.prefix) \in DOMAIN items_cache)
       => /\ last'.ret = items_cache[CacheKey(last'.bucket, last'.prefix)]
          /\ lsCalls' = lsCalls
          /\ items_cache' = items_cache]_vars

C3_Witness ==
    /\ IsListCall(last)
    /\ last.outcome = "cached"
    /\ last.ret = <<>>
    /\ lsCalls = 1

\* C4: no two entries of a returned sequence have the same name; a file and
\* a folder of the same name are merged into one folder entry.
C4_UniqueNames ==
    IsListCall(last) =>
        \A i, j \in 1..Len(last.ret) :
            i # j => last.ret[i].name # last.ret[j].name

KeyBucket(k) == Split(k, SLASH)[1]

KeyPrefix(k) == Drop(k, Len(KeyBucket(k)) + 1)

BuiltFromBackend(k, items) ==
    \E gcs_items \in LsResponses(store, LsPath(KeyBucket(k), KeyPrefix(k))) :
        items = BuildItems(KeyBucket(k), KeyPrefix(k), gcs_items)

\* C5: every cache entry is the result of a backend listing that completed
\* without error; a list_items call that fails or runs without a connection
\* adds no cache entry and changes none.
C5_OnlySuccessfulListingsCached ==
    /\ [](\A k \in DOMAIN items_cache : BuiltFromBackend(k, items_cache[k]))
    /\ [][(IsListCall(last') /\ last'.outcome \in {"error", "nofs"})
          => items_cache' = items_cache]_vars

C5_Witness ==
    /\ IsListCall(last)
    /\ last.outcome = "error"
    /\ items_cache # EmptyCache
    /\ CacheKey(last.bucket, last.prefix) \notin DOMAIN items_cache
    /\ Descendants(store, LsPath(last.bucket, last.prefix)) # {}

\* C6: a list_items call whose backend listing fails gives its caller a
\* result different from that of a successful listing of an empty location.
C6_FailureDistinguishable ==
    (IsListCall(last) /\ last.outcome = "error")
        => last.ret # BuildItems(last.bucket, last.prefix, <<>>)

----------------------------------------------------------------------------
(* Properties of sync_with_rsync *)

IsSyncCall(c) == c.op = "sync_with_rsync"

RsyncInvoked(procs) == \E i \in 1..Len(procs) : procs[i].cmd[1] = "rsync"

\* C8: when the scratch copy by download_with_gsutil fails, rsync is never
\* invoked and sync_with_rsync returns False.
C8_NoRsyncAfterFailedScratchCopy ==
    (IsSyncCall(out) /\ out.scratch = "failed")
        => (~RsyncInvoked(procLog) /\ out.ret = "False")

C8_Witness ==
    /\ IsSyncCall(out)
    /\ out.scratch = "failed"
    /\ out.tempCreated
    /\ env.tools["rsync"] = "ok"

\* C9: the scratch directory created by sync_with_rsync no longer exists
\* when the function returns, whatever the exit path.
C9_ScratchDirectoryRemoved ==
    IsSyncCall(out) => tempDir # "exists"

C9_Witness ==
    /\ IsSyncCall(out)
    /\ out.tempCreated
    /\ tempDir = "removed"

----------------------------------------------------------------------------
(* Properties of download_with_gcsfs *)

IsDirectoryDownload(c) ==
    c.op = "download_with_gcsfs" /\ c.kind = "directory" /\ ~c.globbed

SourceFiles(c) == Descendants(store, StripProtocol(c.source))

\* C10: in a directory transfer where one of several files fails, every
\* other file is still written and the failure shows in the result of the
\* call, which differs from the result of a transfer without failure.
C10_PartialFailureReported ==
    (/\ IsDirectoryDownload(out)
     /\ Cardinality(SourceFiles(out)) >= 2
     /\ Cardinality(out.injected \cap SourceFiles(out)) = 1)
        => /\ out.ret # "True"
           /\ SourceFiles(out) \ out.injected \subseteq out.copied

----------------------------------------------------------------------------
(* Properties of the command-line program *)

IsMainRun(c) == c.op = "main"

\* C7: no transfer subprocess is launched for an external tool that
\* detect_download_tools reported as unavailable.
C7_NoLaunchOfUnavailableTool ==
    IsMainRun(out) =>
        \A i \in 1..Len(procLog) :
            procLog[i].result = "spawned" => out.reported[procLog[i].cmd[1]]

\* the web session: navigation, selection and the download dialog
WebEnvs == {e \in Envs : e.platform = "Linux" /\ e.tools["gcloud"] = "ok"
                          /\ e.tools["rsync"] = "ok"
                          /\ e.tools["gsutil"] # "broken"}

WebUniverse == {<<"b", SLASH, "b">>, <<"b", SLASH, "a", SLASH, "a">>}

WebStores == SUBSET WebUniverse

InitWeb ==
    /\ store \in WebStores
    /\ fs = "None"
    /\ client = "None"
    /\ items_cache = EmptyCache
    /\ current_bucket = <<>>
    /\ current_prefix = <<>>
    /\ current_path = <<>>
    /\ connected = FALSE
    /\ lsCalls = 0
    /\ last = NavCall("init")
    /\ env \in WebEnvs
    /\ procLog = <<>>
    /\ tempDir = "absent"
    /\ localFiles = NoFiles
    /\ out = NoOut
    /\ selected_items = {}
    /\ download_jobs = <<>>
    /\ show_download_dialog = FALSE

NextWeb ==
    \/ \E a \in BOOLEAN, o \in ConnectOutcomes : WebConnect(a, o)
    \/ \E b \in Buckets : SelectBucket(b)
    \/ Render
    \/ \E n \in Names : OpenFolder(n)
    \/ Up
    \/ \E i \in 1..2 : Breadcrumb(i)
    \/ \E p \in DisplayedPaths : Select(p)
    \/ \E p \in DisplayedPaths : Deselect(p)
    \/ SelectAll
    \/ ClearSelection
    \/ ShowDownloadDialog
    \/ CancelDownload
    \/ \E method \in {"gsutil", "gcsfs", "gcloud"},
          paths \in Orderings(selected_items),
          nd \in WebDownloadOutcomes(store) :
            StartDownload(method, paths, nd)

SpecWeb == InitWeb /\ [][NextWeb]_vars

\* listings and folder sizes on one browser
SizeUniverse ==
    {<<"b", SLASH, "b">>, <<"b", SLASH, "a">>, <<"b", SLASH, "a", SLASH, "a">>}

SizeStores == SUBSET SizeUniverse

InitSize ==
    /\ store \in SizeStores
    /\ fs = "None"
    /\ client = "None"
    /\ items_cache = EmptyCache
    /\ current_bucket = <<>>
    /\ current_prefix = <<>>
    /\ current_path = <<>>
    /\ connected = FALSE
    /\ lsCalls = 0
    /\ last = NavCall("init")
    /\ env = DefaultEnv
    /\ procLog = <<>>
    /\ tempDir = "absent"
    /\ localFiles = NoFiles
    /\ out = NoOut
    /\ selected_items = {}
    /\ download_jobs = <<>>
    /\ show_download_dialog = FALSE

NextSize ==
    \/ \E a \in BOOLEAN, o \in ConnectOutcomes : Connect(a, o)
    \/ \E b \in Buckets : ListItems(b, <<>>)
    \/ \E b \in Buckets, p \in Prefixes, nd \in SizeOutcomes(store) :
          GetFolderSize(b, p, nd)

SpecSize == InitSize /\ [][NextSize]_vars

\* tool detection on every host
InitDetect ==
    /\ store = {}
    /\ fs = "None"
    /\ client = "None"
    /\ items_cache = EmptyCache
    /\ current_bucket = <<>>
    /\ current_prefix = <<>>
    /\ current_path = <<>>
    /\ connected = FALSE
    /\ lsCalls = 0
    /\ last = NavCall("init")
    /\ env \in Envs
    /\ procLog = <<>>
    /\ tempDir = "absent"
    /\ localFiles = NoFiles
    /\ out = NoOut
    /\ selected_items = {}
    /\ download_jobs = <<>>
    /\ show_download_dialog = FALSE

NextDetect == \E r \in ToolStates : DetectDownloadToolsCall(r)

SpecDetect == InitDetect /\ [][NextDetect]_vars

\* direct calls of download_with_gsutil on every host
InitGsutil ==
    /\ store = {}
    /\ fs = "None"
    /\ client = "None"
    /\ items_cache = EmptyCache
    /\ current_bucket = <<>>
    /\ current_prefix = <<>>
    /\ current_path = <<>>
    /\ connected = FALSE
    /\ lsCalls = 0
    /\ last = NavCall("init")
    /\ env \in Envs
    /\ procLog = <<>>
    /\ tempDir = "absent"
    /\ localFiles = NoFiles
    /\ out = NoOut
    /\ selected_items = {}
    /\ download_jobs = <<>>
    /\ show_download_dialog = FALSE

NextGsutil ==
    \E source \in {GS \o q : q \in PlainSources}, recursive \in BOOLEAN,
       parallel \in BOOLEAN, rc \in ExitCodes :
        DownloadWithGsutilCall(source, DestBase, recursive, parallel, rc)

SpecGsutil == InitGsutil /\ [][NextGsutil]_vars

\* the size column of a listing
InitHuman ==
    /\ store = {}
    /\ fs = "None"
    /\ client = "None"
    /\ items_cache = EmptyCache
    /\ current_bucket = <<>>
    /\ current_prefix = <<>>
    /\ current_path = <<>>
    /\ connected = FALSE
    /\ lsCalls = 0
    /\ last = NavCall("init")
    /\ env = DefaultEnv
    /\ procLog = <<>>
    /\ tempDir = "absent"
    /\ localFiles = NoFiles
    /\ out = NoOut
    /\ selected_items = {}
    /\ download_jobs = <<>>
    /\ show_download_dialog = FALSE

NextHuman == out.op = "none" /\ \E size \in SizeInputs : SizeHumanCall(size)

SpecHuman == InitHuman /\ [][NextHuman]_vars

----------------------------------------------------------------------------
(* utils.py: the single-file branch of download_with_gcsfs *)

IsFileDownload(o) == o.op = "download_with_gcsfs" /\ o.kind = "file"

IsPrefix(s, t) == Len(s) <= Len(t) /\ SubSeq(t, 1, Len(s)) = s

StrictlyIncreasing(ticks) ==
    \A i \in 1..Len(ticks) - 1 : ticks[i][1] < ticks[i + 1][1]

\* C11: a single-file download writes the chunks in the order read, so a
\* successful copy equals the source bytes (and a failed one is a prefix of
\* them); the downloaded counts handed to the progress callback strictly
\* increase, there is one call per non-empty chunk, every call carries the
\* reported size, and the last count equals the bytes written and that size
C11_SingleFileChunkCopy ==
    IsFileDownload(out) =>
        LET q == StripProtocol(out.source)
        IN  /\ IsPrefix(out.written, Content(q))
            /\ StrictlyIncreasing(out.ticks)
            /\ \A i \in 1..Len(out.ticks) : out.ticks[i][2] = ObjectSize(q)
            /\ out.ret = "True" =>
                  /\ out.written = Content(q)
                  /\ Len(out.ticks) = out.reads - 1
                  /\ Len(out.ticks) > 0
                  /\ out.ticks[Len(out.ticks)][1] = Len(out.written)
                  /\ out.ticks[Len(out.ticks)][1] = ObjectSize(q)

\* a successful copy of several chunks whose last chunk is short
C11_Witness ==
    /\ IsFileDownload(out) /\ out.ret = "True"
    /\ Len(out.ticks) >= 2
    /\ Len(out.written) % ChunkSize # 0

----------------------------------------------------------------------------
(* cli.py: the exit status of main *)

\* C12: main ends with status 0 or 1, never by an uncaught exception or
\* another status, and a browse whose connection failed (no listing call
\* could be made) ends with 1
C12_ExitZeroOnSuccessOneOnFailure ==
    IsMainRun(out) =>
        /\ out.exit \in {"0", "1"}
        /\ ((out.stage = "browse" /\ out.calls = 0) => out.exit = "1")

----------------------------------------------------------------------------
(* web.py: navigation *)

NavOps == {"open_folder", "up", "breadcrumb"}

C14_OtherEntriesKept ==
    [][last'.op \in NavOps =>
          \A k \in DOMAIN items_cache :
              k # CacheKey(current_bucket', current_prefix') =>
                  /\ k \in DOMAIN items_cache'
                  /\ items_cache'[k] = items_cache[k]]_vars

\* C14 (amended): a navigation empties the cache, sibling and ancestor
\* entries included, so the listing that follows it is never served from
\* the cache
C14_NavigationEmptiesCache ==
    [][/\ (last'.op \in NavOps => items_cache' = EmptyCache)
       /\ ((last.op \in NavOps /\ IsListCall(last') /\ fs # "None") =>
             last'.outcome \in {"ok", "error"})]_vars

\* a folder was opened from a listing that had been cached, and the cache
\* is empty afterwards
C14_Witness ==
    /\ last.op = "open_folder"
    /\ lsCalls > 0
    /\ items_cache = EmptyCache

----------------------------------------------------------------------------
(* web.py: the selection set and the download jobs *)

RemovalOps == {"deselect", "clear_selection", "start_download"}

\* C15: navigation and listing leave selected_items as it is, and a selected
\* path leaves the set only when that path is deselected, on Clear
\* Selection, or when a download of the selection has completed
C15_SelectionOnlyRemovedExplicitly ==
    [][/\ ((last'.op \in NavOps \cup {"list_items", "select_bucket"}) =>
             selected_items' = selected_items)
       /\ \A p \in selected_items \ selected_items' :
             \/ last'.op = "deselect" /\ last'.prefix = p
             \/ last'.op \in {"clear_selection", "start_download"}]_vars

\* C16: after a download of the selection there is one DownloadJob per
\* requested path, each in a terminal status, with error_msg set exactly when
\* the status is error; and a job's status only moves forward
JobRank(status) ==
    IF status = "pending" THEN 0 ELSE IF status = "running" THEN 1 ELSE 2

C16_OneJobPerRequestedPath ==
    /\ [](out.op = "start_download" =>
            /\ Len(download_jobs) >= Len(out.requested)
            /\ \A i \in 1..Len(out.requested) :
                  Cardinality({j \in 1..Len(download_jobs) :
                      download_jobs[j].source_path = GS \o out.requested[i]}) = 1)
    /\ [](\A j \in 1..Len(download_jobs) :
            (download_jobs[j].error_msg # "None") = (download_jobs[j].status = "error"))
    /\ [][\A j \in 1..Len(download_jobs) :
            /\ j <= Len(download_jobs')
            /\ JobRank(download_jobs'[j].status) >= JobRank(download_jobs[j].status)
            /\ JobRank(download_jobs[j].status) = 2 =>
                  download_jobs'[j].status = download_jobs[j].status]_vars

----------------------------------------------------------------------------
(* core.py: folder sizes *)

IsSizeCall(o) == o.op = "get_folder_size"

RECURSIVE TotalSize(_)
TotalSize(objects) ==
    IF objects = {} THEN 0
    ELSE LET o == CHOOSE x \in objects : TRUE
         IN  ObjectSize(o) + TotalSize(objects \ {o})

FilesUnder(S, bucket, prefix) == Descendants(S, SizePath(bucket, prefix))

\* C17: with a connection and no failing backend call, get_folder_size
\* returns the sum of the sizes of the files under the prefix at every
\* depth, each counted once, directories adding nothing
C17_FolderSizeIsExactSum ==
    (IsSizeCall(out) /\ out.warned = "none" /\ out.infoFails = {}) =>
        out.ret = TotalSize(FilesUnder(store, out.bucket, out.prefix))

\* a bucket root holding a file at depth 1 and a file at depth 2
C17_Witness ==
    /\ IsSizeCall(out) /\ out.warned = "none" /\ out.infoFails = {}
    /\ out.prefix = <<>>
    /\ \E o \in store : Len(o) = 3
    /\ \E o \in store : Len(o) = 5
    /\ out.ret = 40

\* C18: get_folder_size never propagates an error: without a connection
\* or when the enumeration fails it returns 0, and an object whose stat
\* fails is left out of the sum; it leaves items_cache and the backend
\* call count of list_items alone, and list_items never runs it
C18_FolderSizeBestEffort ==
    /\ [](IsSizeCall(out) =>
            /\ ~out.raised
            /\ (out.warned # "none" => out.ret = 0)
            /\ (out.warned = "none" =>
                  out.ret = TotalSize(FilesUnder(store, out.bucket, out.prefix)
                                      \ out.infoFails)))
    /\ [][/\ (last'.op = "get_folder_size" =>
                 items_cache' = items_cache /\ lsCalls' = lsCalls)
           /\ (last'.op = "list_items" => out' = out)]_vars

\* the enumeration failed while a listing was cached
C18_Witness ==
    /\ IsSizeCall(out) /\ out.warned = "glob" /\ out.ret = 0
    /\ items_cache # EmptyCache

----------------------------------------------------------------------------
(* utils.py: tool detection *)

IsDetectCall(o) == o.op = "detect_download_tools"

----------------------------------------------------------------------------
(* utils.py: download_with_gsutil *)

IsGsutilCall(o) == o.op = "download_with_gsutil"

\* C20: a call of download_with_gsutil tries to launch gsutil exactly once,
\* and returns True exactly when the process was started and exited with
\* status 0; a launch that fails and a non-zero exit both return False
C20_GsutilLaunchedOnce ==
    IsGsutilCall(out) =>
        /\ Len(procLog) = 1
        /\ procLog[1].cmd[1] = "gsutil"
        /\ out.ret \in {"True", "False"}
        /\ (out.ret = "True") =
              (procLog[1].result = "spawned" /\ out.rc = 0)
        /\ (env.tools["gsutil"] = "missing" => out.ret = "False")

\* gsutil ran and exited with a non-zero status
C20_Witness ==
    /\ IsGsutilCall(out)
    /\ procLog[1].result = "spawned"
    /\ out.rc # 0
    /\ out.ret = "False"

----------------------------------------------------------------------------
(* core.py: human readable sizes *)

IsSizeHuman(o) == o.op = "size_human"

Power(i) == IF i = 0 THEN 1 ELSE IF i = 1 THEN Kibi ELSE Kibi * Kibi

Abs(x) == IF x < 0 THEN -x ELSE x

\* the text up to the point, read back as a number of tenths
RECURSIVE StrToInt(_)
StrToInt(t) ==
    IF t = <<>> THEN 0
    ELSE LET c == t[Len(t)]
         IN  10 * StrToInt(SubSeq(t, 1, Len(t) - 1))
             + (CHOOSE k \in 0..9 : DecimalDigits[k + 1] = c)

ShownTenths(text) ==
    LET dot == CHOOSE k \in 1..Len(text) : text[k] = "."
    IN  10 * StrToInt(SubSeq(text, 1, dot - 1)) + StrToInt(<<text[dot + 1]>>)

ShownUnit(text) ==
    LET sp == CHOOSE k \in 1..Len(text) : text[k] = " "
    IN  SubSeq(text, sp + 1, Len(text))

\* C21: size_human gives "0 B" for 0; otherwise the unit is the one reached
\* by dividing by 1024 until the value is below 1024 or TB is reached, and
\* the number shown has one decimal and is the value rounded to the nearest
\* tenth; 1536 gives "1.5 KB" and 1073741824 gives "1.0 GB"
C21_SizeHumanBase1024 ==
    IsSizeHuman(out) =>
        LET n == Len(out.size)
            i == IF n - 1 < 4 THEN n - 1 ELSE 4
        IN  /\ (out.size = <<0>>) = (out.text = <<"0", " ", "B">>)
            /\ out.size # <<0>> =>
                  /\ ShownUnit(out.text) = SizeUnits[i + 1]
                  /\ (i < 4 => ShownTenths(out.text) <= 10 * Kibi)
                  /\ ShownTenths(out.text) >= 10 * out.size[n] \/ i = 0
                  /\ n <= 3 =>
                        LET v == DigitsValue(out.size)
                            q == v \div Power(i)
                            r == v % Power(i)
                        IN  2 * Abs((ShownTenths(out.text) - 10 * q) * Power(i)
                                    - 10 * r) <= Power(i)
            /\ out.size = <<512, 1>> =>
                  out.text = <<"1", ".", "5", " ", "K", "B">>
            /\ out.size = <<0, 0, 0, 1>> =>
                  out.text = <<"1", ".", "0", " ", "G", "B">>

\* a size in the TB range whose value is 1024 or more in that unit
C21_Witness ==
    /\ IsSizeHuman(out)
    /\ Len(out.size) = 6
    /\ ShownUnit(out.text) = <<"T", "B">>
    /\ ShownTenths(out.text) >= 10 * Kibi

----------------------------------------------------------------------------
(* utils.py: the second phase of sync_with_rsync *)

RsyncRuns(procs) == {i \in 1..Len(procs) : procs[i].cmd[1] = "rsync"}

\* C22: on a host other than Windows, when the scratch directory exists and
\* gsutil is there and would exit with status 0, rsync is invoked exactly
\* once, with --dry-run and --delete exactly as requested, and the call
\* returns True exactly when rsync ran and exited with status 0
C22_RsyncRunsOnceAfterScratchCopy ==
    (/\ IsSyncCall(out)
     /\ env.platform # "Windows"
     /\ env.tools["gsutil"] = "ok"
     /\ out.nd.mktemp = "ok"
     /\ out.nd.gsutil_rc = 0) =>
        /\ Cardinality(RsyncRuns(procLog)) = 1
        /\ \A i \in RsyncRuns(procLog) :
              /\ ("--dry-run" \in {procLog[i].cmd[k] : k \in 1..Len(procLog[i].cmd)})
                    = out.args.dry_run
              /\ ("--delete" \in {procLog[i].cmd[k] : k \in 1..Len(procLog[i].cmd)})
                    = out.args.delete
        /\ (out.ret = "True") =
              (env.tools["rsync"] # "missing" /\ out.nd.rsync_rc = 0)

----------------------------------------------------------------------------
(* cli.py: the transfer routine behind each --method value *)

TransferStages == {"download_with_gsutil", "download_with_gcsfs"}

\* the routine utils.py holds for each method of the download command
OwnRoutine(method) ==
    IF method = "gsutil" THEN "download_with_gsutil"
    ELSE IF method = "gcsfs" THEN "download_with_gcsfs"
    ELSE "sync_with_rsync"

\* C23: a download command that reaches a transfer runs the routine of the
\* method the caller selected, and no other
C23_SelectedMechanismRuns ==
    (/\ IsMainRun(out)
     /\ out.args.command = "download"
     /\ out.stage \in TransferStages) =>
        out.stage = OwnRoutine(out.args.method)

----------------------------------------------------------------------------
(* utils.py: where the directory branch of download_with_gcsfs writes *)

\* the path of a descendant relative to the source directory
RelativeToSource(file_path, source) ==
    Drop(file_path, Len(RStrip(StripProtocol(source), SLASH)) + 1)

\* C24: a directory download writes every file it copies to the destination
\* joined with the file's path relative to the source, whether or not the
\* source carries the gs:// scheme, and no two source files share a
\* destination path
C24_FilesPlacedRelativeToSource ==
    IsDirectoryDownload(out) =>
        /\ \A p \in out.placed :
              p[2] = DestJoin(DestBase, RelativeToSource(p[1], out.source))
        /\ \A p1, p2 \in out.placed : p1[1] # p2[1] => p1[2] # p2[2]

----------------------------------------------------------------------------
(* web.py: the listing that follows a navigation *)

\* C25: after open folder, Up or a breadcrumb click the cache holds no
\* entry for the new current prefix, and a listing of the current location
\* made straight after the navigation is answered by the backend
C25_NavigationInvalidatesCurrentPrefix ==
    [][/\ (last'.op \in NavOps =>
              ~CacheHit(items_cache', CacheKey(current_bucket', current_prefix')))
       /\ ((/\ last.op \in NavOps
            /\ IsListCall(last')
            /\ last'.bucket = current_bucket
            /\ last'.prefix = current_prefix) =>
              (last'.outcome \in {"ok", "error"} /\ lsCalls' = lsCalls + 1))]_vars

\* inside an opened folder, whose listing the backend has answered
C25_Witness ==
    /\ IsListCall(last) /\ last.outcome = "ok"
    /\ Len(current_path) = 2
    /\ last.bucket = current_bucket
    /\ last.prefix = current_prefix
    /\ lsCalls = 2

----------------------------------------------------------------------------
(* web.py, web_fixed.py: the navigation state *)

----------------------------------------------------------------------------
(* web_simple.py: the simplified web app.  Every script run builds its own
   GCSBrowser; only st.session_state.connected lives across runs.  fs,
   client and items_cache hold the fields of the browser of the latest
   run. *)

\* GCSBrowser.__init__
FreshBrowser == [fs |-> "None", client |-> "None", items_cache |-> EmptyCache]

\* GCSBrowser.connect on a browser object
BrowserConnect(b, use_anonymous, outcome) ==
    [b EXCEPT !.fs = IF outcome = "fs_fails" THEN @
                     ELSE IF use_anonymous THEN "anon" ELSE "default",
              !.client = IF outcome = "ok" THEN "client" ELSE @]

SimpleBuckets == {<<"b">>, <<"a">>}

SimpleFrame ==
    UNCHANGED <<store, current_bucket, current_prefix, current_path,
                hostVars, sessionVars>>

\* a run in which no button is pressed
SimpleIdle ==
    /\ fs' = FreshBrowser.fs
    /\ client' = FreshBrowser.client
    /\ items_cache' = FreshBrowser.items_cache
    /\ last' = NavCall("simple_run")
    /\ UNCHANGED <<connected, lsCalls>>
    /\ SimpleFrame

\* the run in which Connect (Anonymous) is pressed
SimpleConnect(outcome) ==
    LET browser == BrowserConnect(FreshBrowser, TRUE, outcome)
        success == outcome = "ok"
    IN  /\ ~connected
        /\ fs' = browser.fs
        /\ client' = browser.client
        /\ items_cache' = browser.items_cache
        /\ connected' = success
        /\ last' = Call("simple_connect", <<>>, <<>>, outcome, <<>>)
        /\ UNCHANGED lsCalls
        /\ SimpleFrame

\* the run in which Browse Bucket is pressed: list_items(bucket_name, "")
\* on the browser of this run
SimpleBrowse(bucket_name) ==
    LET browser == FreshBrowser
        cache_key == CacheKey(bucket_name, <<>>)
        path == LsPath(bucket_name, <<>>)
    IN  /\ connected
        /\ bucket_name # <<>>
        /\ fs' = browser.fs
        /\ client' = browser.client
        /\ UNCHANGED connected
        /\ SimpleFrame
        /\ IF browser.fs = "None"
           THEN /\ last' = Call("list_items", bucket_name, <<>>, "nofs", <<>>)
                /\ items_cache' = browser.items_cache
                /\ UNCHANGED lsCalls
           ELSE IF CacheHit(browser.items_cache, cache_key)
           THEN /\ last' = Call("list_items", bucket_name, <<>>, "cached",
                                browser.items_cache[cache_key])
                /\ items_cache' = browser.items_cache
                /\ UNCHANGED lsCalls
           ELSE /\ lsCalls < MaxCalls
                /\ lsCalls' = lsCalls + 1
                /\ \/ /\ items_cache' = CacheAfterError(browser.items_cache, cache_key)
                      /\ last' = Call("list_items", bucket_name, <<>>, "error", <<>>)
                   \/ \E gcs_items \in LsResponses(store, path) :
                         LET items == BuildItems(bucket_name, <<>>, gcs_items)
                         IN  /\ items_cache' = CacheStore(browser.items_cache,
                                                          cache_key, items)
                             /\ last' = Call("list_items", bucket_name, <<>>,
                                             "ok", items)

\* the run in which Disconnect is pressed
SimpleDisconnect ==
    /\ connected
    /\ connected' = FALSE
    /\ fs' = FreshBrowser.fs
    /\ client' = FreshBrowser.client
    /\ items_cache' = FreshBrowser.items_cache
    /\ last' = NavCall("simple_disconnect")
    /\ UNCHANGED lsCalls
    /\ SimpleFrame

InitSimple ==
    /\ store \in Stores
    /\ fs = "None"
    /\ client = "None"
    /\ items_cache = EmptyCache
    /\ current_bucket = <<>>
    /\ current_prefix = <<>>
    /\ current_path = <<>>
    /\ connected = FALSE
    /\ lsCalls = 0
    /\ last = NavCall("init")
    /\ env = DefaultEnv
    /\ procLog = <<>>
    /\ tempDir = "absent"
    /\ localFiles = NoFiles
    /\ out = NoOut
    /\ selected_items = {}
    /\ download_jobs = <<>>
    /\ show_download_dialog = FALSE

NextSimple ==
    \/ SimpleIdle
    \/ \E outcome \in ConnectOutcomes : SimpleConnect(outcome)
    \/ \E bucket_name \in SimpleBuckets : SimpleBrowse(bucket_name)
    \/ SimpleDisconnect

SpecSimple == InitSimple /\ [][NextSimple]_vars

\* C27: in the simplified web app, whenever Browse Bucket lists a bucket in
\* a run with connected true, the browser it uses has fs set and the
\* listing is answered by the cache or the backend
C27_ConnectedBrowseHasFilesystem ==
    (connected /\ IsListCall(last)) =>
        (fs # "None" /\ last.outcome # "nofs")

----------------------------------------------------------------------------
(* utils.py: download_with_gsutil, the child process and its two pipes.
   The child writes lines to stdout and stderr; a write waits while the
   pipe is full.  The caller only ever reads stderr. *)

PipeCapacity == 2   \* lines a pipe buffers before a write waits
MaxOutput == 3      \* lines the child writes to each stream

IsPipeRun(o) == o.op = "gsutil_pipes"

\* subprocess.Popen(cmd, stdout=PIPE, stderr=PIPE): the child has toStdout
\* and toStderr lines left to write and will exit with status rc; a launch
\* failure is caught and the call returns False
PipeStart(source, destination, recursive, parallel, nOut, nErr, rc) ==
    LET p == Launch(env, GsutilCmd(source, destination, recursive, parallel))
    IN  /\ out.op = "none"
        /\ procLog' = <<p>>
        /\ out' = IF p.result = "spawned"
                  THEN [op |-> "gsutil_pipes", tool |-> "running",
                        toStdout |-> nOut, toStderr |-> nErr,
                        stdoutPipe |-> 0, stderrPipe |-> 0,
                        rc |-> rc, pc |-> "readline", ret |-> "None"]
                  ELSE [op |-> "gsutil_pipes", tool |-> "absent",
                        toStdout |-> 0, toStderr |-> 0,
                        stdoutPipe |-> 0, stderrPipe |-> 0,
                        rc |-> rc, pc |-> "returned", ret |-> "False"]
        /\ UNCHANGED <<browserVars, sessionVars, env, tempDir, localFiles>>

PipeFrame ==
    UNCHANGED <<browserVars, sessionVars, env, procLog, tempDir, localFiles>>

\* the child writes a line to stdout when the pipe has room
ToolWriteStdout ==
    /\ IsPipeRun(out)
    /\ out.tool = "running"
    /\ out.toStdout > 0
    /\ out.stdoutPipe < PipeCapacity
    /\ out' = [out EXCEPT !.toStdout = @ - 1, !.stdoutPipe = @ + 1]
    /\ PipeFrame

\* the child writes a line to stderr when the pipe has room
ToolWriteStderr ==
    /\ IsPipeRun(out)
    /\ out.tool = "running"
    /\ out.toStderr > 0
    /\ out.stderrPipe < PipeCapacity
    /\ out' = [out EXCEPT !.toStderr = @ - 1, !.stderrPipe = @ + 1]
    /\ PipeFrame

\* the child exits once it has written everything
ToolExit ==
    /\ IsPipeRun(out)
    /\ out.tool = "running"
    /\ out.toStdout = 0
    /\ out.toStderr = 0
    /\ out' = [out EXCEPT !.tool = "exited"]
    /\ PipeFrame

\* process.stderr.readline() returns a line; the loop goes round
CallerReadLine ==
    /\ IsPipeRun(out)
    /\ out.pc = "readline"
    /\ out.stderrPipe > 0
    /\ out' = [out EXCEPT !.stderrPipe = @ - 1]
    /\ PipeFrame

\* readline() returns '' at end of file and poll() is not None: break,
\* return process.returncode == 0
CallerReadEof ==
    /\ IsPipeRun(out)
    /\ out.pc = "readline"
    /\ out.stderrPipe = 0
    /\ out.tool = "exited"
    /\ out' = [out EXCEPT !.pc = "returned",
                          !.ret = IF out.rc = 0 THEN "True" ELSE "False"]
    /\ PipeFrame

NextPipe ==
    \/ \E source \in {GS \o q : q \in PlainSources}, recursive \in BOOLEAN,
          parallel \in BOOLEAN, nOut \in 0..MaxOutput, nErr \in 0..MaxOutput,
          rc \in ExitCodes :
            PipeStart(source, DestBase, recursive, parallel, nOut, nErr, rc)
    \/ ToolWriteStdout
    \/ ToolWriteStderr
    \/ ToolExit
    \/ CallerReadLine
    \/ CallerReadEof

SpecPipe == InitGsutil /\ [][NextPipe]_vars

\* readline() waits: no line is buffered and the child still holds stderr
CallerBlocked(o) ==
    /\ o.pc = "readline"
    /\ o.stderrPipe = 0
    /\ o.tool = "running"

\* all the child has left is stdout output, and the stdout pipe is full
ToolBlocked(o) ==
    /\ o.tool = "running"
    /\ o.toStderr = 0
    /\ o.toStdout > 0
    /\ o.stdoutPipe = PipeCapacity

\* C28: for any amount of output on stdout and stderr, the call of
\* download_with_gsutil and the child never wait for each other forever:
\* no state has the caller waiting in readline while the child waits to
\* write to stdout with nothing else left to do
C28_CallAndToolNeverBlockEachOther ==
    IsPipeRun(out) => ~(CallerBlocked(out) /\ ToolBlocked(out))

----------------------------------------------------------------------------
(* cli.py: the browse command on a non-empty listing *)

\* C29: a browse run whose listing is not empty, a listing of folders only
\* included, gets through the table of entries and returns 0
C29_BrowseNonEmptyListingReturnsZero ==
    (IsMainRun(out) /\ out.stage = "browse" /\ out.items # <<>>) =>
        out.exit = "0"

----------------------------------------------------------------------------
(* utils.py: download_with_gcsfs on a source that is not there *)

IsGcsfsDownload(o) == o.op = "download_with_gcsfs"

\* the source is an object, yet the call took the directory branch: its
\* fs.info raised
StatFailed(o) == FsInfo(store, o.source) = "file" /\ o.kind = "directory"

SourceMissing(o) == FsInfo(store, o.source) = "notfound"

\* C30: download_with_gcsfs returns True only if the source was found; when
\* the source does not exist or its stat fails it returns False and writes
\* no file
C30_TrueOnlyIfSourceFound ==
    IsGcsfsDownload(out) =>
        /\ (out.ret = "True" => (~SourceMissing(out) /\ ~StatFailed(out)))
        /\ ((SourceMissing(out) \/ StatFailed(out)) => localFiles = NoFiles)

====
